---- MODULE Spec2Model ----
(***************************************************************************)
(* DocMate session controller (src/src/App.tsx): the React state of App,   *)
(* its refs, the platform objects it drives (MediaRecorder, interval       *)
(* timers, SpeechRecognition, the streamed completion, the clipboard) and  *)
(* one action per handler or callback.  A handler runs to its next await   *)
(* in one step: the event loop is single-threaded.                         *)
(*                                                                         *)
(* Text is a sequence of units; a unit stands for a non-empty run of       *)
(* characters, " " for a run of white space, and \o is concatenation.      *)
(*                                                                         *)
(* audioChunksRef is written by ondataavailable and read nowhere; it is    *)
(* left out.  The platform is modelled by its documented behaviour:        *)
(* SpeechRecognition.start() on a recognizer that has not ended throws     *)
(* InvalidStateError, stop() leads to pending results and then onend, an   *)
(* error event is followed by onend, and MediaRecorder.stop() queues the   *)
(* stop event.                                                             *)
(***************************************************************************)
EXTENDS Integers, Sequences, FiniteSets, TLC

(* ------------------------------- bounds -------------------------------- *)
MaxRecorders == 2     \* MediaRecorder objects created over a behaviour
MaxResults == 2       \* entries in one recognizer result event
MaxTranscript == 3    \* units in the transcript
MaxRuns == 2          \* generateClinicalNotes calls in flight
MaxCopies == 1        \* clipboard writes and revert timers pending
MaxTime == 1          \* recordingTime

(* ------------------------------ alphabets ------------------------------ *)
Sep == <<" ">>
Whitespace == {" "}
FinalTexts == {<<>>, <<"chest pain ">>}     \* texts of final entries
InterimTexts == {<<"two days">>}            \* texts of interim entries
Undefined == <<"undefined">>                \* a chunk without delta.content
\* The chunk sequences a completion stream may deliver.
Responses ==
  {<< <<"Subjective: ">>, Undefined, <<"patient reports chest pain.">> >>}
ErrorCodes == {"no-speech"}
CopyTypes == {"Transcript", "Clinical notes"}
NoRef == 0

VARIABLES
  hasRecognizer,    \* recognitionRef.current is not null
  apiKeySet,        \* VITE_GROQ_API_KEY is configured
  isRecording, transcript, notes, status, isLoading, recordingTime,
  isTranscribing,
  mediaRecorderRef, \* id of the MediaRecorder held, or NoRef
  intervalRef,      \* id of the interval held, or NoRef
  recorders,        \* id -> "unborn" | "recording" | "inactive"
  stopEvents,       \* recorders whose stop event is queued
  timers,           \* intervals that are set and not cleared
  recState,         \* "idle" | "started" | "stopping" | "failed"
  pendingStarts,    \* startRecording calls awaiting the grant; the flag
                    \* records isLoading at invocation (history)
  runs,             \* generateClinicalNotes calls past their checks
  clipWrites,       \* clipboard writes not yet settled
  reverts,          \* pending 2 s timers; the flag records whether the
                    \* status was set again since the copy (history)
  finals,           \* history: texts of the final entries delivered since
                    \* the transcript was last reset
  finalsAtStop      \* history: how many of them had been delivered when
                    \* stopRecording last ran

react == <<isRecording, transcript, notes, status, isLoading, recordingTime,
           isTranscribing>>
vars == <<hasRecognizer, apiKeySet, isRecording, transcript, notes, status,
          isLoading, recordingTime, isTranscribing, mediaRecorderRef,
          intervalRef, recorders, stopEvents, timers, recState,
          pendingStarts, runs, clipWrites, reverts, finals, finalsAtStop>>

(* --------------------------- status messages --------------------------- *)
StReadyToRecord == "Ready to record"
StRecording == "Recording in progress..."
StMicError == "Error: Could not access microphone. Please check permissions."
StProcessing == "Processing recording..."
StSaved == "Recording saved. Starting transcription..."
StComplete == "Transcription complete"
StNeedTranscript == "Please record and transcribe audio first."
StNeedKey == "Error: Please configure your Groq API key in environment variables."
StGenerating == "Generating clinical notes..."
StGenerated == "Clinical notes generated successfully!"
StGenError == "Error generating notes. Please check your API key and try again."
StReady == "Ready"

TranscriptionErrorStatus(e) ==
  CASE e = "no-speech" -> "Transcription error: no-speech"
    [] OTHER -> "Transcription error"

CopiedStatus(type) ==
  CASE type = "Transcript" -> "Transcript copied to clipboard!"
    [] OTHER -> "Clinical notes copied to clipboard!"

ErrorStatuses == {StMicError, StNeedKey, StGenError}

(* ------------------------------- helpers ------------------------------- *)
Remove(s, i) == SubSeq(s, 1, i - 1) \o SubSeq(s, i + 1, Len(s))

Supersede(rs) == [i \in DOMAIN rs |-> TRUE]

SetStatus(s) == status' = s /\ reverts' = Supersede(reverts)

config == <<hasRecognizer, apiKeySet>>

(* --------------------------- pure functions ---------------------------- *)
\* String.prototype.trim: leading and trailing white space removed.
RECURSIVE TrimLeft(_)
TrimLeft(s) ==
  IF s # <<>> /\ Head(s) \in Whitespace THEN TrimLeft(Tail(s)) ELSE s

RECURSIVE TrimRight(_)
TrimRight(s) ==
  IF s # <<>> /\ s[Len(s)] \in Whitespace
  THEN TrimRight(SubSeq(s, 1, Len(s) - 1)) ELSE s

Trim(s) == TrimRight(TrimLeft(s))

\* A recognizer result event: resultIndex counts from 0 as in the DOM.
Entries ==
  [transcript : FinalTexts, isFinal : {TRUE}]
    \cup [transcript : InterimTexts, isFinal : {FALSE}]
ResultLists == UNION {[1..n -> Entries] : n \in 1..MaxResults}
ResultEvents ==
  {ev \in [resultIndex : 0..(MaxResults - 1), results : ResultLists] :
     ev.resultIndex < Len(ev.results)}

\* The loop of onresult: for (i = resultIndex; i < results.length; i++).
RECURSIVE FinalTranscriptLoop(_, _, _)
FinalTranscriptLoop(results, i, finalTranscript) ==
  IF i < Len(results)
  THEN FinalTranscriptLoop(results, i + 1,
         IF results[i + 1].isFinal
         THEN finalTranscript \o results[i + 1].transcript \o Sep
         ELSE finalTranscript)
  ELSE finalTranscript

\* The loop started at 0 instead of resultIndex.
FinalTranscriptFromZero(ev) == FinalTranscriptLoop(ev.results, 0, <<>>)

FinalTranscript(ev) == FinalTranscriptLoop(ev.results, ev.resultIndex, <<>>)

\* The content read without the fallback to the empty string.
ContentOfRaw(chunk) == chunk

\* chunk.choices[0]?.delta?.content || ''
ContentOf(chunk) == IF chunk = Undefined THEN <<>> ELSE chunk

\* if (content) setNotes(prev => prev + content)
AppendContent(prev, chunk) ==
  IF ContentOf(chunk) # <<>> THEN prev \o ContentOf(chunk) ELSE prev

\* The prompt sent to the completion service ends with the transcript.
ClinicalPrompt(t) == <<"Convert doctor-patient transcripts into clinical notes">> \o t

\* SpeechRecognition.stop(): a started recognizer finalizes, then ends.
RecognizerStop(s) == IF s = "started" THEN "stopping" ELSE s

\* SpeechRecognition.start() throws InvalidStateError unless the recognizer
\* has ended.
RecognizerStartThrows(s) == s # "idle"

NextId == Cardinality({r \in DOMAIN recorders : recorders[r] # "unborn"}) + 1

(* -------------------------------- Init --------------------------------- *)
Init ==
  /\ hasRecognizer \in BOOLEAN
  /\ apiKeySet \in BOOLEAN
  /\ isRecording = FALSE
  /\ transcript = <<>>
  /\ notes = <<>>
  /\ status = StReadyToRecord
  /\ isLoading = FALSE
  /\ recordingTime = 0
  /\ isTranscribing = FALSE
  /\ mediaRecorderRef = NoRef
  /\ intervalRef = NoRef
  /\ recorders = [r \in 1..MaxRecorders |-> "unborn"]
  /\ stopEvents = {}
  /\ timers = {}
  /\ recState = "idle"
  /\ pendingStarts = <<>>
  /\ runs = <<>>
  /\ clipWrites = <<>>
  /\ reverts = <<>>
  /\ finals = <<>>
  /\ finalsAtStop = 0

(* ----------------------------- startRecording -------------------------- *)
\* The call announcing the request in the status before it awaits.
StartRecordingAnnounces ==
  /\ NextId + Len(pendingStarts) <= MaxRecorders
  /\ pendingStarts' = Append(pendingStarts, isLoading)
  /\ SetStatus(StRecording)
  /\ UNCHANGED <<config, isRecording, transcript, notes, isLoading,
                 recordingTime, isTranscribing, mediaRecorderRef, intervalRef,
                 recorders, stopEvents, timers, recState, runs, clipWrites,
                 finals, finalsAtStop>>

\* The call up to its await of getUserMedia.
StartRecording ==
  /\ NextId + Len(pendingStarts) <= MaxRecorders
  /\ pendingStarts' = Append(pendingStarts, isLoading)
  /\ UNCHANGED <<config, react, reverts, mediaRecorderRef, intervalRef,
                 recorders, stopEvents, timers, recState, runs, clipWrites,
                 finals, finalsAtStop>>

\* getUserMedia resolves: the rest of the try block.  recognition.start()
\* throws when the recognizer has not ended, and the catch block runs with
\* the state already set and the interval not yet created.
MicrophoneGranted(i) ==
  /\ i \in DOMAIN pendingStarts
  /\ NextId <= MaxRecorders
  /\ pendingStarts' = Remove(pendingStarts, i)
  /\ mediaRecorderRef' = NextId
  /\ recorders' = [recorders EXCEPT ![NextId] = "recording"]
  /\ isRecording' = TRUE
  /\ recordingTime' = 0
  /\ transcript' = <<>>
  /\ notes' = <<>>
  /\ finals' = <<>>
  /\ finalsAtStop' = 0
  /\ IF hasRecognizer /\ RecognizerStartThrows(recState)
     THEN /\ SetStatus(StMicError)
          /\ UNCHANGED <<recState, isTranscribing, intervalRef, timers>>
     ELSE /\ SetStatus(StRecording)
          /\ IF hasRecognizer
             THEN recState' = "started" /\ isTranscribing' = TRUE
             ELSE UNCHANGED <<recState, isTranscribing>>
          /\ intervalRef' = NextId
          /\ timers' = timers \cup {NextId}
  /\ UNCHANGED <<config, isLoading, stopEvents, runs, clipWrites>>

\* The catch block also clearing the transcript and the note.
MicrophoneDeniedResets(i) ==
  /\ i \in DOMAIN pendingStarts
  /\ pendingStarts' = Remove(pendingStarts, i)
  /\ SetStatus(StMicError)
  /\ transcript' = <<>>
  /\ notes' = <<>>
  /\ finals' = <<>>
  /\ finalsAtStop' = 0
  /\ UNCHANGED <<config, isRecording, isLoading, recordingTime,
                 isTranscribing, mediaRecorderRef, intervalRef, recorders,
                 stopEvents, timers, recState, runs, clipWrites>>

\* getUserMedia rejects (permission denied, no device): the catch block.
MicrophoneDenied(i) ==
  /\ i \in DOMAIN pendingStarts
  /\ pendingStarts' = Remove(pendingStarts, i)
  /\ SetStatus(StMicError)
  /\ UNCHANGED <<config, isRecording, transcript, notes, isLoading,
                 recordingTime, isTranscribing, mediaRecorderRef, intervalRef,
                 recorders, stopEvents, timers, recState, runs, clipWrites,
                 finals, finalsAtStop>>

(* ----------------------------- stopRecording --------------------------- *)
StopRecording ==
  IF mediaRecorderRef # NoRef /\ recorders[mediaRecorderRef] = "recording"
  THEN /\ recorders' = [recorders EXCEPT ![mediaRecorderRef] = "inactive"]
       /\ stopEvents' = stopEvents \cup {mediaRecorderRef}
       /\ isRecording' = FALSE
       /\ IF intervalRef # NoRef
          THEN timers' = timers \ {intervalRef} /\ intervalRef' = NoRef
          ELSE UNCHANGED <<timers, intervalRef>>
       /\ recState' = IF hasRecognizer THEN RecognizerStop(recState) ELSE recState
       /\ SetStatus(StProcessing)
       /\ UNCHANGED <<config, transcript, notes, isLoading, recordingTime,
                      isTranscribing, mediaRecorderRef, pendingStarts, runs,
                      clipWrites, finals>>
       /\ finalsAtStop' = Len(finals)
  ELSE UNCHANGED vars

\* mediaRecorder.onstop
RecorderStopped(r) ==
  /\ r \in stopEvents
  /\ stopEvents' = stopEvents \ {r}
  /\ SetStatus(StSaved)
  /\ recState' = IF hasRecognizer THEN RecognizerStop(recState) ELSE recState
  /\ UNCHANGED <<config, isRecording, transcript, notes, isLoading,
                 recordingTime, isTranscribing, mediaRecorderRef, intervalRef,
                 recorders, timers, pendingStarts, runs, clipWrites, finals,
                 finalsAtStop>>

\* The setInterval callback.
Tick(t) ==
  /\ t \in timers
  /\ recordingTime < MaxTime
  /\ recordingTime' = recordingTime + 1
  /\ UNCHANGED <<config, isRecording, transcript, notes, status, reverts,
                 isLoading, isTranscribing, mediaRecorderRef, intervalRef,
                 recorders, stopEvents, timers, recState, pendingStarts, runs,
                 clipWrites, finals, finalsAtStop>>

(* ------------------------- recognizer callbacks ------------------------ *)
\* The texts of the final entries an event reports, from resultIndex on.
FinalsOf(ev) ==
  LET reported == SubSeq(ev.results, ev.resultIndex + 1, Len(ev.results))
      final == SelectSeq(reported, LAMBDA e : e.isFinal)
  IN  [k \in DOMAIN final |-> final[k].transcript]

\* onresult ignoring what the recognizer delivers once recording stopped.
RecognitionResultWhileRecording(ev) ==
  /\ recState \in {"started", "stopping"}
  /\ Len(transcript \o FinalTranscript(ev)) <= MaxTranscript
  /\ transcript' = IF isRecording THEN transcript \o FinalTranscript(ev)
                                  ELSE transcript
  /\ finals' = finals \o FinalsOf(ev)
  /\ UNCHANGED finalsAtStop
  /\ UNCHANGED <<config, isRecording, notes, status, reverts, isLoading,
                 recordingTime, isTranscribing, mediaRecorderRef, intervalRef,
                 recorders, stopEvents, timers, recState, pendingStarts, runs,
                 clipWrites>>

RecognitionResult(ev) ==
  /\ recState \in {"started", "stopping"}
  /\ Len(transcript \o FinalTranscript(ev)) <= MaxTranscript
  /\ transcript' = transcript \o FinalTranscript(ev)
  /\ finals' = finals \o FinalsOf(ev)
  /\ UNCHANGED finalsAtStop
  /\ UNCHANGED <<config, isRecording, notes, status, reverts, isLoading,
                 recordingTime, isTranscribing, mediaRecorderRef, intervalRef,
                 recorders, stopEvents, timers, recState, pendingStarts, runs,
                 clipWrites>>

RecognitionError(e) ==
  /\ recState \in {"started", "stopping"}
  /\ recState' = "failed"
  /\ SetStatus(TranscriptionErrorStatus(e))
  /\ isTranscribing' = FALSE
  /\ UNCHANGED <<config, isRecording, transcript, notes, isLoading,
                 recordingTime, mediaRecorderRef, intervalRef, recorders,
                 stopEvents, timers, pendingStarts, runs, clipWrites, finals,
                 finalsAtStop>>

\* onend also dropping the transcript gathered so far.
RecognitionEndClears ==
  /\ recState \in {"started", "stopping", "failed"}
  /\ recState' = "idle"
  /\ isTranscribing' = FALSE
  /\ SetStatus(StComplete)
  /\ transcript' = <<>>
  /\ finals' = <<>>
  /\ finalsAtStop' = 0
  /\ UNCHANGED <<config, isRecording, notes, isLoading, recordingTime,
                 mediaRecorderRef, intervalRef, recorders, stopEvents, timers,
                 pendingStarts, runs, clipWrites>>

RecognitionEnd ==
  /\ recState \in {"started", "stopping", "failed"}
  /\ recState' = "idle"
  /\ isTranscribing' = FALSE
  /\ SetStatus(StComplete)
  /\ UNCHANGED <<config, isRecording, transcript, notes, isLoading,
                 recordingTime, mediaRecorderRef, intervalRef, recorders,
                 stopEvents, timers, pendingStarts, runs, clipWrites, finals,
                 finalsAtStop>>

(* ------------------------- generateClinicalNotes ----------------------- *)
\* The call up to its await of groq.chat.completions.create.  A run holds
\* the prompt of its request, the chunks its stream has yet to deliver and,
\* as history, the text the stream has delivered.
GenerateClinicalNotes ==
  IF Trim(transcript) = <<>>
  THEN /\ SetStatus(StNeedTranscript)
       /\ UNCHANGED <<config, isRecording, transcript, notes, isLoading,
                      recordingTime, isTranscribing, mediaRecorderRef,
                      intervalRef, recorders, stopEvents, timers, recState,
                      pendingStarts, runs, clipWrites, finals, finalsAtStop>>
  ELSE IF ~apiKeySet
  THEN /\ SetStatus(StNeedKey)
       /\ UNCHANGED <<config, isRecording, transcript, notes, isLoading,
                      recordingTime, isTranscribing, mediaRecorderRef,
                      intervalRef, recorders, stopEvents, timers, recState,
                      pendingStarts, runs, clipWrites, finals, finalsAtStop>>
  ELSE /\ Len(runs) < MaxRuns
       /\ SetStatus(StGenerating)
       /\ isLoading' = TRUE
       /\ notes' = <<>>
       /\ runs' = Append(runs, [phase |-> "opening",
                                prompt |-> ClinicalPrompt(transcript),
                                stream |-> <<>>,
                                got |-> <<>>])
       /\ UNCHANGED <<config, isRecording, transcript, recordingTime,
                      isTranscribing, mediaRecorderRef, intervalRef, recorders,
                      stopEvents, timers, recState, pendingStarts, clipWrites,
                      finals, finalsAtStop>>

\* create() resolves with the stream.
StreamOpened(i, response) ==
  /\ i \in DOMAIN runs
  /\ runs[i].phase = "opening"
  /\ runs' = [runs EXCEPT ![i].phase = "streaming", ![i].stream = response]
  /\ UNCHANGED <<config, react, reverts, mediaRecorderRef, intervalRef,
                 recorders, stopEvents, timers, recState, pendingStarts,
                 clipWrites, finals, finalsAtStop>>

\* One iteration of for await (const chunk of stream).
StreamChunk(i) ==
  /\ i \in DOMAIN runs
  /\ runs[i].phase = "streaming"
  /\ runs[i].stream # <<>>
  /\ notes' = AppendContent(notes, Head(runs[i].stream))
  /\ runs' = [runs EXCEPT ![i].stream = Tail(@),
                          ![i].got = @ \o ContentOf(Head(runs[i].stream))]
  /\ UNCHANGED <<config, isRecording, transcript, status, reverts, isLoading,
                 recordingTime, isTranscribing, mediaRecorderRef, intervalRef,
                 recorders, stopEvents, timers, recState, pendingStarts,
                 clipWrites, finals, finalsAtStop>>

\* The stream ends: the statement after the loop, then finally.
StreamEnd(i) ==
  /\ i \in DOMAIN runs
  /\ runs[i].phase = "streaming"
  /\ runs[i].stream = <<>>
  /\ runs' = Remove(runs, i)
  /\ SetStatus(StGenerated)
  /\ isLoading' = FALSE
  /\ UNCHANGED <<config, isRecording, transcript, notes, recordingTime,
                 isTranscribing, mediaRecorderRef, intervalRef, recorders,
                 stopEvents, timers, recState, pendingStarts, clipWrites,
                 finals, finalsAtStop>>

\* The catch block issuing the request again instead of giving up.
StreamFailedRetries(i) ==
  /\ i \in DOMAIN runs
  /\ runs' = [runs EXCEPT ![i].phase = "opening", ![i].stream = <<>>]
  /\ UNCHANGED <<config, react, reverts, mediaRecorderRef, intervalRef,
                 recorders, stopEvents, timers, recState, pendingStarts,
                 clipWrites, finals, finalsAtStop>>

\* create() rejects or the stream throws: catch, then finally.
StreamFailed(i) ==
  /\ i \in DOMAIN runs
  /\ runs' = Remove(runs, i)
  /\ SetStatus(StGenError)
  /\ isLoading' = FALSE
  /\ UNCHANGED <<config, isRecording, transcript, notes, recordingTime,
                 isTranscribing, mediaRecorderRef, intervalRef, recorders,
                 stopEvents, timers, recState, pendingStarts, clipWrites,
                 finals, finalsAtStop>>

(* ----------------------------- copyToClipboard ------------------------- *)
CopyToClipboard(type) ==
  /\ Len(clipWrites) + Len(reverts) < MaxCopies
  /\ clipWrites' = Append(clipWrites, type)
  /\ UNCHANGED <<config, react, reverts, mediaRecorderRef, intervalRef,
                 recorders, stopEvents, timers, recState, pendingStarts, runs,
                 finals, finalsAtStop>>

\* writeText resolves: the then callback sets the status and the timer.
ClipboardWritten(i) ==
  /\ i \in DOMAIN clipWrites
  /\ clipWrites' = Remove(clipWrites, i)
  /\ status' = CopiedStatus(clipWrites[i])
  /\ reverts' = Append(Supersede(reverts), FALSE)
  /\ UNCHANGED <<config, isRecording, transcript, notes, isLoading,
                 recordingTime, isTranscribing, mediaRecorderRef, intervalRef,
                 recorders, stopEvents, timers, recState, pendingStarts, runs,
                 finals, finalsAtStop>>

\* writeText rejects: there is no rejection handler.
ClipboardRejected(i) ==
  /\ i \in DOMAIN clipWrites
  /\ clipWrites' = Remove(clipWrites, i)
  /\ UNCHANGED <<config, react, reverts, mediaRecorderRef, intervalRef,
                 recorders, stopEvents, timers, recState, pendingStarts, runs,
                 finals, finalsAtStop>>

\* The setTimeout callback, 2000 ms after the copy.
RevertStatus(i) ==
  /\ i \in DOMAIN reverts
  /\ status' = StReady
  /\ reverts' = Supersede(Remove(reverts, i))
  /\ UNCHANGED <<config, isRecording, transcript, notes, isLoading,
                 recordingTime, isTranscribing, mediaRecorderRef, intervalRef,
                 recorders, stopEvents, timers, recState, pendingStarts, runs,
                 clipWrites, finals, finalsAtStop>>

(* ------------------------------- buttons ------------------------------- *)
\* onClick={isRecording ? stopRecording : startRecording} disabled={isLoading}
ClickRecordButton ==
  /\ ~isLoading
  /\ IF isRecording THEN StopRecording ELSE StartRecording

\* disabled={isLoading || !transcript.trim() || isRecording}
ClickGenerateButton ==
  /\ ~(isLoading \/ Trim(transcript) = <<>> \/ isRecording)
  /\ GenerateClinicalNotes

\* {transcript && <button .../>} and {notes && <button .../>}
ClickCopyButton(type) ==
  /\ IF type = "Transcript" THEN transcript # <<>> ELSE notes # <<>>
  /\ CopyToClipboard(type)

(* ---------------------------- specifications --------------------------- *)
\* What the capture device, the recognizer and the timer deliver.
CaptureCallbacks ==
  \/ \E i \in 1..MaxRecorders : MicrophoneGranted(i)
  \/ \E i \in 1..MaxRecorders : MicrophoneDenied(i)
  \/ \E r \in 1..MaxRecorders : RecorderStopped(r)
  \/ \E t \in 1..MaxRecorders : Tick(t)
  \/ \E ev \in ResultEvents : RecognitionResult(ev)
  \/ \E e \in ErrorCodes : RecognitionError(e)
  \/ RecognitionEnd

\* What the completion service delivers.
StreamCallbacks ==
  \/ \E i \in 1..MaxRuns, response \in Responses : StreamOpened(i, response)
  \/ \E i \in 1..MaxRuns : StreamChunk(i)
  \/ \E i \in 1..MaxRuns : StreamEnd(i)
  \/ \E i \in 1..MaxRuns : StreamFailed(i)

\* What the clipboard and the 2 s timer deliver.
ClipboardCallbacks ==
  \/ \E i \in 1..MaxCopies : ClipboardWritten(i)
  \/ \E i \in 1..MaxCopies : ClipboardRejected(i)
  \/ \E i \in 1..MaxCopies : RevertStatus(i)

\* The application as rendered: a handler runs when its button is enabled.
Next ==
  \/ ClickRecordButton
  \/ ClickGenerateButton
  \/ \E type \in CopyTypes : ClickCopyButton(type)
  \/ CaptureCallbacks
  \/ StreamCallbacks
  \/ ClipboardCallbacks

Spec == Init /\ [][Next]_vars

\* The application with a completion service that answers: a request in
\* flight is eventually opened, delivers its next chunk, ends or fails.
FairSpec == Spec /\ WF_vars(StreamCallbacks)

\* The recording and generation operations invoked directly, whatever the
\* buttons show.
NextAPI ==
  \/ StartRecording
  \/ StopRecording
  \/ GenerateClinicalNotes
  \/ CaptureCallbacks
  \/ StreamCallbacks

SpecAPI == Init /\ [][NextAPI]_vars

(* ------------------------------- claims -------------------------------- *)
\* The transcript the final entries delivered so far should give: each
\* text followed by one separator, in delivery order.
RECURSIVE JoinFinals(_)
JoinFinals(texts) ==
  IF texts = <<>> THEN <<>>
  ELSE Head(texts) \o Sep \o JoinFinals(Tail(texts))

\* C1: the transcript is the concatenation, in delivery order, of the text
\* of every final entry reported from resultIndex on, each followed by one
\* separator; interim entries contribute nothing.
C1_TranscriptIsFinalsInOrder == transcript = JoinFinals(finals)

\* Two different final entries have been folded in, in order.
C1_Witness ==
  /\ finals = << <<>>, <<"chest pain ">> >>
  /\ transcript = <<" ", "chest pain ", " ">>
  /\ isRecording

\* C2: when a stream ends, the note is the concatenation of the fragments
\* that stream delivered, whatever ran in between.
C2_NoteIsStreamText ==
  [][\A i \in DOMAIN runs : StreamEnd(i) => notes' = runs[i].got]_vars

\* C3: when a stream fails, the note is the concatenation of the fragments
\* delivered before the failure, isLoading is false and the status is an
\* error message.
C3_FailureKeepsPartialNote ==
  [][\A i \in DOMAIN runs :
       StreamFailed(i) =>
         /\ notes' = runs[i].got
         /\ ~isLoading'
         /\ status' \in ErrorStatuses]_vars

\* C4: generateClinicalNotes with a blank transcript, while recording or
\* without a key opens no request and changes nothing but the status.
C4_GenerateRefused ==
  [][(/\ GenerateClinicalNotes
      /\ (Trim(transcript) = <<>> \/ isRecording \/ ~apiKeySet))
       => UNCHANGED <<isRecording, isLoading, transcript, notes, runs>>]_vars

\* A stop has run and no recording has started since.
Stopped == ~isRecording /\ mediaRecorderRef # NoRef

\* C5: stopRecording while recording leaves the session not recording, and
\* recordingTime does not advance again until a recording starts (a second
\* stopRecording finds the recorder inactive and changes nothing).
C5_StopStaysStopped ==
  [][/\ (StopRecording /\ isRecording) => ~isRecording'
     /\ (Stopped /\ ~isRecording') => recordingTime' = recordingTime]_vars

\* C6: a startRecording whose getUserMedia is rejected sets the error
\* status and leaves the session, the transcript, the note, the elapsed
\* time, the recognizer and the timers as they were.
C6_DeniedStartChangesOnlyStatus ==
  [][\A i \in DOMAIN pendingStarts :
       MicrophoneDenied(i) =>
         /\ status' = StMicError
         /\ ~isRecording => ~isRecording'
         /\ UNCHANGED <<isRecording, transcript, notes, recordingTime,
                        isTranscribing, recState, timers, intervalRef,
                        mediaRecorderRef, recorders>>]_vars

\* A start has just been denied (no status was set since) after a session
\* whose recognizer has ended and whose transcript is still there.
C6_Witness ==
  /\ status = StMicError
  /\ ~isRecording
  /\ hasRecognizer /\ recState = "idle"
  /\ transcript # <<>>
  /\ timers = {}

\* C7: after getUserMedia resolves, the transcript and the note are empty,
\* recordingTime is 0, the session is recording, the recognizer (where the
\* platform has one) is started and the interval held is running.
C7_StartedStateIsFresh ==
  [][\A i \in DOMAIN pendingStarts :
       MicrophoneGranted(i) =>
         /\ transcript' = <<>> /\ notes' = <<>> /\ recordingTime' = 0
         /\ isRecording'
         /\ hasRecognizer => recState' = "started"
         /\ intervalRef' # NoRef /\ intervalRef' \in timers']_vars

\* C8: a startRecording invoked while isLoading, whose grant arrives while
\* isLoading, starts nothing and changes nothing.
C8_StartRefusedWhileGenerating ==
  [][\A i \in DOMAIN pendingStarts :
       (MicrophoneGranted(i) /\ pendingStarts[i] /\ isLoading) =>
         UNCHANGED <<isRecording, transcript, notes, recordingTime,
                     mediaRecorderRef, recorders, recState, timers>>]_vars

\* C9: the session is never recording and generating at once.
C9_NotRecordingAndGenerating == ~(isRecording /\ isLoading)

\* C10: the 2 s timer of a copy leaves alone a status set after the copy.
C10_RevertOnlyIfNotSuperseded ==
  [][\A i \in DOMAIN reverts :
       (RevertStatus(i) /\ reverts[i]) => status' = status]_vars

\* C11: a recognizer error event and a recognizer end event each clear
\* isTranscribing and set the status, and leave transcript, notes,
\* recordingTime, isRecording and isLoading as they were.
C11_RecognizerEventsKeepSession ==
  [][/\ \A e \in ErrorCodes :
          RecognitionError(e) =>
            /\ ~isTranscribing'
            /\ status' = TranscriptionErrorStatus(e)
            /\ UNCHANGED <<transcript, notes, recordingTime, isRecording,
                           isLoading>>
     /\ RecognitionEnd =>
          /\ ~isTranscribing'
          /\ status' = StComplete
          /\ UNCHANGED <<transcript, notes, recordingTime, isRecording,
                         isLoading>>]_vars

\* The recognizer has ended (no status was set since) during a recording
\* whose transcript is still there.
C11_Witness ==
  /\ status = StComplete
  /\ recState = "idle"
  /\ ~isTranscribing
  /\ isRecording
  /\ transcript # <<>>

\* C12: a result event delivered after stopRecording, before the recognizer
\* has ended, is folded in like any other: the text of each of its final
\* entries followed by one separator is appended in order, and its interim
\* entries add nothing.
C12_LateResultsFolded ==
  [][\A ev \in ResultEvents :
       (~isRecording /\ recState = "stopping" /\ RecognitionResult(ev)) =>
         transcript' = transcript \o JoinFinals(FinalsOf(ev))]_vars

\* stopRecording ran (no status was set since), the recognizer has not
\* ended, and a final entry delivered after the stop is in the transcript.
C12_Witness ==
  /\ Stopped
  /\ status = StProcessing
  /\ recState = "stopping"
  /\ Len(finals) > finalsAtStop
  /\ finals[Len(finals)] = <<"chest pain ">>
  /\ transcript = JoinFinals(finals)

\* C13: while a generation is in flight the transcript does not change: it
\* equals the transcript the prompt of that generation was built from, also
\* when the generation was started after stopRecording and before the
\* recognizer delivered its remaining results and its end.
C13_TranscriptIsPromptSnapshot ==
  \A i \in DOMAIN runs : runs[i].prompt = ClinicalPrompt(transcript)

\* What the claims call the controller state.
Controller ==
  <<isRecording, isLoading, transcript, notes, recordingTime, status>>

\* C14: startRecording and generateClinicalNotes change no controller
\* state before their handshake resolves: the call up to the await of the
\* microphone grant, and the call up to the await of the opening of the
\* completion stream, leave isRecording, isLoading, transcript, notes,
\* recordingTime and status as they were.
C14_NoChangeBeforeHandshake ==
  [][(StartRecording \/ (GenerateClinicalNotes /\ runs' # runs)) =>
       UNCHANGED Controller]_vars

\* C14 amended: startRecording changes no controller state before the
\* grant resolves; generateClinicalNotes sets the generating status, sets
\* isLoading and clears the notes before it awaits the opening of the
\* stream, leaves isRecording, transcript and recordingTime alone, and the
\* opening itself changes no controller state.
C14_OnlyGenerateActsBeforeHandshake ==
  [][/\ StartRecording => UNCHANGED Controller
     /\ (GenerateClinicalNotes /\ runs' # runs) =>
          /\ status' = StGenerating
          /\ isLoading'
          /\ notes' = <<>>
          /\ UNCHANGED <<isRecording, transcript, recordingTime>>
     /\ \A i \in 1..MaxRuns, response \in Responses :
          StreamOpened(i, response) => UNCHANGED Controller]_vars

\* Both calls are at their await: a start waits for the grant and a
\* generation waits for its stream, the session as the generation left it.
C14_Witness ==
  /\ pendingStarts # <<>>
  /\ Len(runs) = 1
  /\ runs[1].phase = "opening"
  /\ status = StGenerating
  /\ isLoading
  /\ notes = <<>>
  /\ ~isRecording
  /\ runs[1].prompt = ClinicalPrompt(transcript)

\* A generation has ended: isLoading is false and the status is the success
\* message or the generation error message.
GenerationDone == ~isLoading /\ status \in {StGenerated, StGenError}

\* C15: every generateClinicalNotes run that passes its preconditions
\* eventually ends with isLoading false and the success or error status,
\* whether the stream ends or fails at open or mid-stream, and it issues
\* one completion request: a failure opens no request again.
C15_GenerationEndsOnce ==
  /\ isLoading ~> GenerationDone
  /\ [][/\ GenerateClinicalNotes => Len(runs') <= Len(runs) + 1
        /\ \A i \in DOMAIN runs :
             (StreamEnd(i) \/ StreamFailed(i)) =>
               /\ Len(runs') = Len(runs) - 1
               /\ GenerationDone']_vars

\* A generation that failed in mid-stream has ended: nothing is in flight
\* and the fragment delivered before the failure is in the notes.
C15_Witness ==
  /\ runs = <<>>
  /\ GenerationDone
  /\ status = StGenError
  /\ notes = <<"Subjective: ">>

\* The recognizer event of the scenario: a final entry followed by an
\* interim entry, reported from index 0.
ScenarioEvent ==
  [resultIndex |-> 0,
   results |-> << [transcript |-> <<"chest pain ">>, isFinal |-> TRUE],
                  [transcript |-> <<"two days">>, isFinal |-> FALSE] >>]

\* The first recording has been stopped after the one final entry of the
\* scenario was delivered.
ScenarioRecorded ==
  /\ Stopped
  /\ mediaRecorderRef = 1
  /\ finals = << <<"chest pain ">> >>

\* The note of the scenario.
ScenarioNote == <<"Subjective: ", "patient reports chest pain.">>

\* C16: after startRecording, the event with the final entry "chest pain "
\* and the interim entry "two days", and stopRecording, the transcript is
\* exactly "chest pain "; a following generation whose stream yields
\* "Subjective: " and "patient reports chest pain." ends with the notes
\* their concatenation, isLoading false and the success status.
C16_Scenario ==
  /\ [][(isRecording /\ transcript = <<>> /\ RecognitionResult(ScenarioEvent))
          => transcript' = <<"chest pain ">>]_vars
  /\ [](ScenarioRecorded => transcript = <<"chest pain ">>)
  /\ []((ScenarioRecorded /\ status = StGenerated) =>
          (notes = ScenarioNote /\ ~isLoading))

\* C16 amended: the transcript of the scenario is "chest pain " followed by
\* the one separator onresult appends to every final entry; the rest is as
\* stated.
C16_ScenarioWithSeparator ==
  /\ [][(isRecording /\ transcript = <<>> /\ RecognitionResult(ScenarioEvent))
          => transcript' = <<"chest pain ", " ">>]_vars
  /\ [](ScenarioRecorded => transcript = <<"chest pain ", " ">>)
  /\ []((ScenarioRecorded /\ status = StGenerated) =>
          (notes = ScenarioNote /\ ~isLoading))

\* The scenario has run to its end.
C16_Witness ==
  /\ ScenarioRecorded
  /\ transcript = <<"chest pain ", " ">>
  /\ status = StGenerated
  /\ notes = ScenarioNote
  /\ ~isLoading
  /\ runs = <<>>

\* C17: at most one one-second interval is active, and none is active
\* while the session is not recording, whatever the sequence of operations
\* (a second startRecording while the first awaits the grant included).
C17_OneTimerOnlyWhileRecording ==
  /\ Cardinality(timers) <= 1
  /\ ~isRecording => timers = {}

\* The capture recorders that are recording.
Recording == {r \in DOMAIN recorders : recorders[r] = "recording"}

\* C18: at most one capture recorder is recording, none is once
\* stopRecording has run, and every recorder that is recording is the one
\* mediaRecorderRef refers to.
C18_OneRecorderOwned ==
  /\ Cardinality(Recording) <= 1
  /\ Stopped => Recording = {}
  /\ Recording \subseteq {mediaRecorderRef}

\* C19: generateClinicalNotes called while a generation is in flight is a
\* no-op: it opens no second request and leaves the notes as they are.
C19_GenerateWhileGeneratingIsNoOp ==
  [][(isLoading /\ GenerateClinicalNotes) => UNCHANGED <<notes, runs>>]_vars

\* C20: after stopRecording, the later of the recorder's stop event and the
\* recognizer's end event (the earlier one delivered, the status as it left
\* it) leaves isTranscribing false and the status "Transcription complete",
\* in either order.
C20_StopEndsComplete ==
  [][/\ (/\ Stopped
         /\ stopEvents = {}
         /\ status = StSaved
         /\ RecognitionEnd) =>
          (~isTranscribing' /\ status' = StComplete)
     /\ (/\ Stopped
         /\ recState = "idle"
         /\ status = StComplete
         /\ RecorderStopped(mediaRecorderRef)) =>
          (~isTranscribing' /\ status' = StComplete)]_vars

====
